---- MODULE Spec2Model ----
(***************************************************************************)
(* GoMine: the login handler (LoginHandler.Handle), the player session     *)
(* (players.Player: lifecycle flags, permissions, tracked chunks) and the  *)
(* player registry the handler talks to.                                   *)
(*                                                                         *)
(* The specifications share the variables:                                 *)
(*   SpecLogin     concurrent LoginHandler.Handle invocations              *)
(*   SpecName      the handshake together with SetName                     *)
(*   SpecPerm      HasPermission / AddPermission / RemovePermission        *)
(*   SpecMove      SendChunk / SyncMove / SetViewDistance / removal, from  *)
(*                 two threads on one session                              *)
(*   SpecLoad      SyncMove against the chunk-loading path                 *)
(*   SpecRead      SendChunk / SyncMove / HasChunkInUse / HasAnyChunkInUse *)
(*   SpecPair      SyncMove on one of two sessions that track chunks       *)
(*   SpecFar       SendChunk / SyncMove in a world with a far chunk        *)
(*   SpecScenario  Scenario A of the specification, run by one thread      *)
(*   SpecLife      session removal among several sessions                  *)
(***************************************************************************)
EXTENDS Integers, Sequences, FiniteSets, TLC

(* ------------------------------ bounds --------------------------------- *)
\* Connections (one Handle invocation each) and so Player objects.
NumPlayers == 2
\* Largest view distance SetViewDistance is given.
MaxView == 2

(* ------------------------- program constants --------------------------- *)
\* chunkX = int32(floor(x)) >> 4
ChunkShift == 4
\* pk.Status = 0
StatusLoginSuccess == 0

Players == 1..NumPlayers
\* The threads that call into a session's chunk operations: the network
\* thread of its connection and the world's chunk loader / tick loop.
Workers == {"net", "world"}
\* the value of mux when no thread holds it
Unlocked == "free"
\* the null *Player
NoPlayer == 0

(* ------------------------------- inputs -------------------------------- *)
\* usernames login packets carry; NameList[i] is the name session i of
\* SpecPerm and SpecMove logged in with
NameList == <<"Steve", "Alex", "Notch">>
Names == {NameList[i] : i \in 1..Len(NameList)}
\* a packet handed to LoginHandler.Handle is a *packets.LoginPacket or not
PacketKinds == {"Login", "Other"}
LoginNames == {"Steve", "Alex"}
Packets == [kind : PacketKinds, username : LoginNames]

VARIABLES
    \* PlayerFactory: name -> registered Player (NoPlayer when absent)
    registry,
    \* Player objects constructed so far
    objs,
    \* Player struct fields, per object
    playerName, spawned, finalized, viewDistance, onGround, position,
    usedChunks, mux, permissions, permissionGroup,
    \* chunk.viewers, per chunk
    viewers,
    \* LoginHandler.Handle invocations, one per connection
    hpc, hpacket, hplayer, hret,
    \* packets handed to the transport adapter, per connection
    sent,
    \* chunk-operation threads: position in the method, its locals, what the
    \* running call has sent
    wpc, wloc, wout,
    \* the last completed permission / lifecycle call and its result
    last

playerVars == <<playerName, spawned, finalized, viewDistance, onGround, position,
                usedChunks, mux, permissions, permissionGroup>>
loginVars == <<hpc, hpacket, hplayer, hret, sent>>
workerVars == <<wpc, wloc, wout>>
vars == <<registry, objs, playerVars, viewers, loginVars, workerVars, last>>


(* --------------------------- maps (Go map) ----------------------------- *)
EmptyMap == <<>>
HasKey(m, k) == k \in DOMAIN m
Put(m, k, v) == [x \in DOMAIN m \cup {k} |-> IF x = k THEN v ELSE m[x]]
Delete(m, k) == [x \in DOMAIN m \ {k} |-> m[x]]

(* ----------------------- permissions (external) ------------------------ *)
PermNames == {"fly", "build"}
\* a *permissions.Permission: its name and the value it carries
Permissions == [name : PermNames, value : BOOLEAN]
\* a *permissions.Group, as the set of names it grants
Groups == {{}, {"build"}, {"fly", "build"}}
\* PermissionManager.GetDefaultGroup()
DefaultGroup == {"build"}
\* Group.HasPermission(name)
GroupHasPermission(group, name) == name \in group

(* -------------------------- player registry ---------------------------- *)
\* PlayerFactory.GetPlayerByName(name): the player and an error that is nil
\* exactly when a player is registered under the name
GetPlayerByName(name) ==
    [player |-> registry[name],
     err |-> IF registry[name] # NoPlayer THEN "nil" ELSE "not found"]
\* PlayerFactory.AddPlayer(player, session): inserts under the name key
AddPlayer(reg, p) == [reg EXCEPT ![playerName[p]] = p]
\* PlayerFactory.RemovePlayer(name)
RemovePlayer(reg, name) == [reg EXCEPT ![name] = NoPlayer]
\* PlayerFactory.GetPlayers()
GetPlayers == {registry[n] : n \in Names} \ {NoPlayer}


(* ------------------------------ login ---------------------------------- *)
\* NewPlayer(server, name): the fields the constructor assigns; every other
\* field keeps Go's zero value (spawned, finalized, onGround false,
\* viewDistance 0)
NewPlayer(p, name) ==
    /\ objs' = objs \cup {p}
    /\ playerName' = [playerName EXCEPT ![p] = name]
    /\ usedChunks' = [usedChunks EXCEPT ![p] = EmptyMap]
    /\ permissions' = [permissions EXCEPT ![p] = EmptyMap]
    /\ permissionGroup' = [permissionGroup EXCEPT ![p] = DefaultGroup]
    /\ UNCHANGED <<spawned, finalized, viewDistance, onGround, position, mux>>

\* The dispatcher hands a packet of connection t to Handle; a packet that is
\* no *LoginPacket skips the body and Handle returns true.
HandleStart(t, packet) ==
    /\ hpc[t] = "idle"
    /\ hpacket' = [hpacket EXCEPT ![t] = packet]
    /\ IF packet.kind = "Login"
         THEN /\ hpc' = [hpc EXCEPT ![t] = "lookup"]
              /\ UNCHANGED hret
         ELSE /\ hpc' = [hpc EXCEPT ![t] = "done"]
              /\ hret' = [hret EXCEPT ![t] = "true"]
    /\ UNCHANGED <<registry, objs, playerVars, viewers, hplayer, sent, workerVars, last>>

\* HandleLookup without the early return: the lookup's result is ignored
\* and Handle goes on to create a session.
HandleLookupNoReturn(t) ==
    /\ hpc[t] = "lookup"
    /\ hpc' = [hpc EXCEPT ![t] = "new"]
    /\ UNCHANGED <<registry, objs, playerVars, viewers, hpacket, hplayer, hret, sent,
                   workerVars, last>>

\* _, online := GetPlayerByName(Username); if online == nil { return false }
HandleLookup(t) ==
    /\ hpc[t] = "lookup"
    /\ IF GetPlayerByName(hpacket[t].username).err = "nil"
         THEN /\ hpc' = [hpc EXCEPT ![t] = "done"]
              /\ hret' = [hret EXCEPT ![t] = "false"]
         ELSE /\ hpc' = [hpc EXCEPT ![t] = "new"]
              /\ UNCHANGED hret
    /\ UNCHANGED <<registry, objs, playerVars, viewers, hpacket, hplayer, sent, workerVars, last>>

\* var player = players.NewPlayer(...) and the setters on the new object;
\* connection t's Player object is object t
HandleNewPlayer(t) ==
    /\ hpc[t] = "new"
    /\ NewPlayer(t, hpacket[t].username)
    /\ hplayer' = [hplayer EXCEPT ![t] = t]
    /\ hpc' = [hpc EXCEPT ![t] = "status"]
    /\ UNCHANGED <<registry, viewers, hpacket, hret, sent, workerVars, last>>

\* pk.Status = 0; SendPacket(pk, session)
HandleSendStatus(t) ==
    /\ hpc[t] = "status"
    /\ sent' = [sent EXCEPT ![t] =
                   Append(@, [id |-> "PlayStatus", status |-> StatusLoginSuccess])]
    /\ hpc' = [hpc EXCEPT ![t] = "packs"]
    /\ UNCHANGED <<registry, objs, playerVars, viewers, hpacket, hplayer, hret, workerVars, last>>

\* HandleSendPacks without the send: Handle goes on to AddPlayer and the
\* resource-pack-info packet never reaches the connection.
HandleSendPacksSkipped(t) ==
    /\ hpc[t] = "packs"
    /\ hpc' = [hpc EXCEPT ![t] = "add"]
    /\ UNCHANGED <<registry, objs, playerVars, viewers, hpacket, hplayer, hret, sent,
                   workerVars, last>>

\* SendPacket(pk3, session)
HandleSendPacks(t) ==
    /\ hpc[t] = "packs"
    /\ sent' = [sent EXCEPT ![t] = Append(@, [id |-> "ResourcePackInfo"])]
    /\ hpc' = [hpc EXCEPT ![t] = "add"]
    /\ UNCHANGED <<registry, objs, playerVars, viewers, hpacket, hplayer, hret, workerVars, last>>

\* HandleAddPlayer without the AddPlayer call: Handle returns true and the
\* session is never registered.
HandleAddPlayerForgotten(t) ==
    /\ hpc[t] = "add"
    /\ hpc' = [hpc EXCEPT ![t] = "done"]
    /\ hret' = [hret EXCEPT ![t] = "true"]
    /\ UNCHANGED <<registry, objs, playerVars, viewers, hpacket, hplayer, sent, workerVars, last>>

\* AddPlayer(player, session); return true
HandleAddPlayer(t) ==
    /\ hpc[t] = "add"
    /\ registry' = AddPlayer(registry, hplayer[t])
    /\ hpc' = [hpc EXCEPT ![t] = "done"]
    /\ hret' = [hret EXCEPT ![t] = "true"]
    /\ UNCHANGED <<objs, playerVars, viewers, hpacket, hplayer, sent, workerVars, last>>

\* Player.SetSpawned(value), the later spawn step on a registered session
SetSpawned(p, value) ==
    /\ p \in GetPlayers
    /\ spawned[p] # value
    /\ spawned' = [spawned EXCEPT ![p] = value]
    /\ UNCHANGED <<registry, objs, playerName, finalized, viewDistance, onGround, position,
                   usedChunks, mux, permissions, permissionGroup, viewers, loginVars,
                   workerVars, last>>


\* func (player *Player) SetName(name string)
SetName(p, name) ==
    /\ p \in objs
    /\ playerName' = [playerName EXCEPT ![p] = name]
    /\ UNCHANGED <<registry, objs, spawned, finalized, viewDistance, onGround, position,
                   usedChunks, mux, permissions, permissionGroup, viewers, loginVars,
                   workerVars, last>>

(* ---------------------------- permissions ------------------------------ *)
\* What `last` records of a call: the method, its receiver, the name it was given, what it
\* returned, whether an override for the name existed and which group the
\* session had when it was called, the call before it, and the peers a
\* removal notified.
Call(op, p, name, ret, had, group, pre, notified) ==
    [op |-> op, player |-> p, name |-> name, ret |-> ret, had |-> had, group |-> group,
     pre |-> pre, notified |-> notified]
NoCall == Call("none", NoPlayer, "", FALSE, FALSE, {}, <<"none", "">>, {})

\* func (player *Player) HasPermission(permission string) bool
HasPermission(p, name) ==
    IF GroupHasPermission(permissionGroup[p], name)
    THEN TRUE
    ELSE HasKey(permissions[p], name)

\* a handler asking HasPermission(name)
HasPermissionCall(p, name) ==
    /\ p \in objs
    /\ last' = Call("HasPermission", p, name, HasPermission(p, name),
                    HasKey(permissions[p], name), permissionGroup[p],
                    <<last.op, last.name>>, {})
    /\ UNCHANGED <<registry, objs, playerVars, viewers, loginVars, workerVars>>

\* func (player *Player) AddPermission(permission *permissions.Permission) bool
AddPermission(p, permission) ==
    /\ p \in objs
    /\ LET hasPermission == HasPermission(p, permission.name) IN
        /\ permissions' = [permissions EXCEPT ![p] = Put(@, permission.name, permission)]
        /\ last' = Call("AddPermission", p, permission.name, hasPermission,
                        HasKey(permissions[p], permission.name), permissionGroup[p],
                        <<last.op, last.name>>, {})
    /\ UNCHANGED <<registry, objs, playerName, spawned, finalized, viewDistance, onGround,
                   position, usedChunks, mux, permissionGroup, viewers, loginVars,
                   workerVars>>

\* RemovePermission without the delete: it reports the removal and leaves
\* the override in place.
RemovePermissionKeeps(p, name) ==
    /\ p \in objs
    /\ last' = Call("RemovePermission", p, name, HasPermission(p, name),
                    HasKey(permissions[p], name), permissionGroup[p],
                    <<last.op, last.name>>, {})
    /\ UNCHANGED <<registry, objs, playerVars, viewers, loginVars, workerVars>>

\* func (player *Player) RemovePermission(permission string) bool
RemovePermission(p, name) ==
    /\ p \in objs
    /\ IF ~HasPermission(p, name)
         THEN /\ UNCHANGED permissions
              /\ last' = Call("RemovePermission", p, name, FALSE,
                              HasKey(permissions[p], name), permissionGroup[p],
                              <<last.op, last.name>>, {})
         ELSE /\ permissions' = [permissions EXCEPT ![p] = Delete(@, name)]
              /\ last' = Call("RemovePermission", p, name, TRUE,
                              HasKey(permissions[p], name), permissionGroup[p],
                              <<last.op, last.name>>, {})
    /\ UNCHANGED <<registry, objs, playerName, spawned, finalized, viewDistance, onGround,
                   position, usedChunks, mux, permissionGroup, viewers, loginVars,
                   workerVars>>

\* func (player *Player) SetPermissionGroup(group *permissions.Group)
SetPermissionGroup(p, group) ==
    /\ p \in objs
    /\ permissionGroup' = [permissionGroup EXCEPT ![p] = group]
    /\ last' = Call("SetPermissionGroup", p, "", FALSE, FALSE, permissionGroup[p],
                    <<last.op, last.name>>, {})
    /\ UNCHANGED <<registry, objs, playerName, spawned, finalized, viewDistance, onGround,
                   position, usedChunks, mux, permissions, viewers, loginVars, workerVars>>


(* ------------------------- world (external) ---------------------------- *)
\* The chunks of the world, by chunk index: GetX() and GetZ() of each.
ChunkList == << <<0, 0>>, <<1, 0>>, <<5, 0>> >>
Chunks == 1..Len(ChunkList)
\* The world of Scenario A (spec 8): every chunk with x in -2..7 and z in
\* -2..2, which holds all chunks within squared distance 4 of (0,0) and of
\* (5,0). Their indexes follow those of ChunkList, row by row.
GridColumns == -2..7
GridRows == -2..2
GridList ==
    [i \in 1..(Cardinality(GridColumns) * Cardinality(GridRows)) |->
        <<((i - 1) % Cardinality(GridColumns)) - 2, ((i - 1) \div Cardinality(GridColumns)) - 2>>]
GridChunks == (Len(ChunkList) + 1)..(Len(ChunkList) + Len(GridList))
\* A chunk 65536 chunks east of the origin; its index follows the others.
FarList == << <<65536, 0>> >>
FarChunks ==
    (Len(ChunkList) + Len(GridList) + 1)..(Len(ChunkList) + Len(GridList) + Len(FarList))
AllChunks == ChunkList \o GridList \o FarList
GetX(chunk) == AllChunks[chunk][1]
GetZ(chunk) == AllChunks[chunk][2]
\* chunk.GetEntities(): the entities registered in each chunk; every chunk
\* of the Scenario A world holds one sheep
ChunkEntities == << {"cow"}, {}, {"pig", "bat"} >>
GetEntities(chunk) ==
    IF chunk \in Chunks THEN ChunkEntities[chunk]
    ELSE IF chunk \in GridChunks THEN {<<"sheep", chunk>>}
    ELSE {"squid"}
\* chunk.AddViewer(player), chunk.RemoveViewer(player)
AddViewer(v, chunk, p) == [v EXCEPT ![chunk] = @ \cup {p}]
RemoveViewer(v, chunk, p) == [v EXCEPT ![chunk] = @ \ {p}]

\* Positions a movement packet carries, in half blocks (x = x2 / 2), with
\* the on-ground flag: x = 0.5, z = 0.5; x = -0.5, z = 0; x = 80.5, z = 8.
MoveInputs ==
    {[x2 |-> 1, z2 |-> 1, onGround |-> TRUE],
     [x2 |-> -1, z2 |-> 0, onGround |-> FALSE],
     [x2 |-> 161, z2 |-> 16, onGround |-> TRUE]}

(* --------------------------- tracked chunks ---------------------------- *)
\* math2.Floor(float64(x)) of x = x2 / 2
Floor(x2) == x2 \div 2
\* int32(...) >> 4: an arithmetic shift rounds towards minus infinity
ChunkCoord(x2) == Floor(x2) \div (2 ^ ChunkShift)

\* int32 arithmetic, as Go does it: a value is held as its four bytes in
\* two's complement, least significant first, and a result keeps its low
\* 32 bits.
Byte == 256
Bytes32(n) == [i \in 1..4 |-> (n \div (Byte ^ (i - 1))) % Byte]
Int32(b) ==
    (IF b[4] >= Byte \div 2 THEN b[4] - Byte ELSE b[4]) * (Byte ^ 3)
    + b[3] * (Byte ^ 2) + b[2] * Byte + b[1]
Add32(a, b) ==
    LET k1 == a[1] + b[1]
        k2 == a[2] + b[2] + (k1 \div Byte)
        k3 == a[3] + b[3] + (k2 \div Byte)
        k4 == a[4] + b[4] + (k3 \div Byte)
    IN <<k1 % Byte, k2 % Byte, k3 % Byte, k4 % Byte>>
Sub32(a, b) ==
    LET k1 == a[1] - b[1]
        k2 == a[2] - b[2] + (k1 \div Byte)
        k3 == a[3] - b[3] + (k2 \div Byte)
        k4 == a[4] - b[4] + (k3 \div Byte)
    IN <<k1 % Byte, k2 % Byte, k3 % Byte, k4 % Byte>>
Mul32(a, b) ==
    LET k1 == a[1] * b[1]
        k2 == a[1] * b[2] + a[2] * b[1] + (k1 \div Byte)
        k3 == a[1] * b[3] + a[2] * b[2] + a[3] * b[1] + (k2 \div Byte)
        k4 == a[1] * b[4] + a[2] * b[3] + a[3] * b[2] + a[4] * b[1] + (k3 \div Byte)
    IN <<k1 % Byte, k2 % Byte, k3 % Byte, k4 % Byte>>
\* player.GetViewDistance() * player.GetViewDistance()
RadiusSquared(distance) == Int32(Mul32(Bytes32(distance), Bytes32(distance)))

\* DistSq with the squares forgotten: xDist + zDist.
DistNoSquares(chunkX, chunkZ, chunk) ==
    LET xDist == chunkX - GetX(chunk)
        zDist == chunkZ - GetZ(chunk)
    IN xDist + zDist

\* DistSq with the x axis forgotten: zDist*zDist.
DistSqZOnly(chunkX, chunkZ, chunk) ==
    LET zDist == chunkZ - GetZ(chunk)
    IN zDist * zDist

\* xDist*xDist + zDist*zDist of SyncMove, in int32
DistSq(chunkX, chunkZ, chunk) ==
    LET xDist == Sub32(Bytes32(chunkX), Bytes32(GetX(chunk)))
        zDist == Sub32(Bytes32(chunkZ), Bytes32(GetZ(chunk)))
    IN Int32(Add32(Mul32(xDist, xDist), Mul32(zDist, zDist)))
\* OutOfRange with the radius one too wide: a chunk is culled only when its
\* squared distance exceeds rs + 1.
OutOfRangeTooWide(chunkX, chunkZ, rs, chunk) == DistSq(chunkX, chunkZ, chunk) > rs + 1

\* if xDist*xDist+zDist*zDist > rs: the chunk is culled
OutOfRange(chunkX, chunkZ, rs, chunk) == DistSq(chunkX, chunkZ, chunk) > rs

\* A thread's locals: the method it runs and its receiver; the chunk
\* (SendChunk); x and z as given, chunkX, chunkZ and rs (SyncMove).
Locals(op, p, chunk, x2, z2, chunkX, chunkZ, rs) ==
    [op |-> op, player |-> p, chunk |-> chunk, x2 |-> x2, z2 |-> z2,
     chunkX |-> chunkX, chunkZ |-> chunkZ, rs |-> rs]
NoLocals == Locals("none", NoPlayer, 0, 0, 0, 0, 0, 0)

\* func (player *Player) SetViewDistance(distance int32)
SetViewDistance(p, distance) ==
    /\ p \in objs
    /\ viewDistance[p] # distance
    /\ viewDistance' = [viewDistance EXCEPT ![p] = distance]
    /\ UNCHANGED <<registry, objs, playerName, spawned, finalized, onGround, position,
                   usedChunks, mux, permissions, permissionGroup, viewers, loginVars,
                   workerVars, last>>

\* The load path subscribes the session to the chunk and calls
\* SendChunk(chunk, index), which starts with player.SendFullChunkData(chunk).
SendChunkCall(w, p, chunk) ==
    /\ wpc[w] = "idle"
    /\ p \in objs
    /\ viewers' = AddViewer(viewers, chunk, p)
    /\ wout' = [wout EXCEPT ![w] = {[id |-> "FullChunkData", what |-> chunk, to |-> p]}]
    /\ wloc' = [wloc EXCEPT ![w] = Locals("SendChunk", p, chunk, 0, 0, 0, 0, 0)]
    /\ wpc' = [wpc EXCEPT ![w] = "sc_lock"]
    /\ UNCHANGED <<registry, objs, playerVars, loginVars, last>>

\* player.mux.Lock()
SendChunkLock(w) ==
    /\ wpc[w] = "sc_lock"
    /\ mux[wloc[w].player] = Unlocked
    /\ mux' = [mux EXCEPT ![wloc[w].player] = w]
    /\ wpc' = [wpc EXCEPT ![w] = "sc_insert"]
    /\ UNCHANGED <<registry, objs, playerName, spawned, finalized, viewDistance, onGround,
                   position, usedChunks, permissions, permissionGroup, viewers, loginVars,
                   wloc, wout, last>>

\* player.usedChunks[index] = chunk
SendChunkInsert(w) ==
    /\ wpc[w] = "sc_insert"
    /\ usedChunks' = [usedChunks EXCEPT ![wloc[w].player] =
                         Put(@, wloc[w].chunk, wloc[w].chunk)]
    /\ wpc' = [wpc EXCEPT ![w] = "sc_unlock"]
    /\ UNCHANGED <<registry, objs, playerName, spawned, finalized, viewDistance, onGround,
                   position, mux, permissions, permissionGroup, viewers, loginVars,
                   wloc, wout, last>>

\* player.mux.Unlock(), and SendChunk returns
SendChunkUnlock(w) ==
    /\ wpc[w] = "sc_unlock"
    /\ mux' = [mux EXCEPT ![wloc[w].player] = Unlocked]
    /\ wpc' = [wpc EXCEPT ![w] = "idle"]
    /\ wloc' = [wloc EXCEPT ![w] = NoLocals]
    /\ wout' = [wout EXCEPT ![w] = {}]
    /\ UNCHANGED <<registry, objs, playerName, spawned, finalized, viewDistance, onGround,
                   position, usedChunks, permissions, permissionGroup, viewers, loginVars,
                   last>>

\* The chunks in range of the position of session p that it does not track.
Missing(p) ==
    {chunk \in DOMAIN viewers :
        /\ ~HasKey(usedChunks[p], chunk)
        /\ ~OutOfRange(ChunkCoord(position[p][1]), ChunkCoord(position[p][2]),
                       RadiusSquared(viewDistance[p]), chunk)}
\* The chunk-loading path (spec 4.4 step 5) sends a session the chunks that
\* are in range of its position and that it does not track yet, in the
\* order of their indexes.
LoadChunk(w, p, chunk) ==
    /\ wpc[w] = "idle"
    /\ chunk \in Missing(p)
    /\ \A other \in Missing(p) : chunk <= other
    /\ SendChunkCall(w, p, chunk)

\* SyncMove up to the lock: SetPosition, the on-ground flag, chunkX, chunkZ
\* and rs. (The rotation it accumulates never reaches the chunk logic and
\* is left out.)
SyncMoveCall(w, p, in) ==
    /\ wpc[w] = "idle"
    /\ p \in objs
    /\ position' = [position EXCEPT ![p] = <<in.x2, in.z2>>]
    /\ onGround' = [onGround EXCEPT ![p] = in.onGround]
    /\ wloc' = [wloc EXCEPT ![w] =
                   Locals("SyncMove", p, 0, in.x2, in.z2, ChunkCoord(in.x2),
                          ChunkCoord(in.z2), RadiusSquared(viewDistance[p]))]
    /\ wout' = [wout EXCEPT ![w] = {}]
    /\ wpc' = [wpc EXCEPT ![w] = "sm_lock"]
    /\ UNCHANGED <<registry, objs, playerName, spawned, finalized, viewDistance, usedChunks,
                   mux, permissions, permissionGroup, viewers, loginVars, last>>

\* player.mux.Lock()
SyncMoveLock(w) ==
    /\ wpc[w] = "sm_lock"
    /\ mux[wloc[w].player] = Unlocked
    /\ mux' = [mux EXCEPT ![wloc[w].player] = w]
    /\ wpc' = [wpc EXCEPT ![w] = "sm_cull"]
    /\ UNCHANGED <<registry, objs, playerName, spawned, finalized, viewDistance, onGround,
                   position, usedChunks, permissions, permissionGroup, viewers, loginVars,
                   wloc, wout, last>>

\* SyncMoveCull without chunk.RemoveViewer(player): the culled chunks keep
\* the player as a viewer.
SyncMoveCullKeepsViewer(w) ==
    /\ wpc[w] = "sm_cull"
    /\ LET p == wloc[w].player
           used == usedChunks[p]
           culled == {index \in DOMAIN used :
                        OutOfRange(wloc[w].chunkX, wloc[w].chunkZ, wloc[w].rs, used[index])}
           gone == {used[index] : index \in culled}
       IN /\ usedChunks' = [usedChunks EXCEPT ![p] =
                               [index \in DOMAIN used \ culled |-> used[index]]]
          /\ wout' = [wout EXCEPT ![w] = @ \cup
                         {[id |-> "Despawn", what |-> entity, to |-> p] :
                            entity \in UNION {GetEntities(chunk) : chunk \in gone}}]
    /\ wpc' = [wpc EXCEPT ![w] = "sm_unlock"]
    /\ UNCHANGED <<registry, objs, playerName, spawned, finalized, viewDistance, onGround,
                   position, mux, permissions, permissionGroup, viewers, loginVars, wloc,
                   last>>

\* for index, chunk := range player.usedChunks { ... }: every entry out of
\* range loses the player as a viewer, is deleted, and each entity of the
\* chunk is despawned from the player. The loop runs under the lock.
SyncMoveCull(w) ==
    /\ wpc[w] = "sm_cull"
    /\ LET p == wloc[w].player
           used == usedChunks[p]
           culled == {index \in DOMAIN used :
                        OutOfRange(wloc[w].chunkX, wloc[w].chunkZ, wloc[w].rs, used[index])}
           gone == {used[index] : index \in culled}
       IN /\ usedChunks' = [usedChunks EXCEPT ![p] =
                               [index \in DOMAIN used \ culled |-> used[index]]]
          /\ viewers' = [chunk \in DOMAIN viewers |->
                           IF chunk \in gone THEN viewers[chunk] \ {p} ELSE viewers[chunk]]
          /\ wout' = [wout EXCEPT ![w] = @ \cup
                         {[id |-> "Despawn", what |-> entity, to |-> p] :
                            entity \in UNION {GetEntities(chunk) : chunk \in gone}}]
    /\ wpc' = [wpc EXCEPT ![w] = "sm_unlock"]
    /\ UNCHANGED <<registry, objs, playerName, spawned, finalized, viewDistance, onGround,
                   position, mux, permissions, permissionGroup, loginVars, wloc, last>>

\* player.mux.Unlock(), and SyncMove returns
SyncMoveUnlock(w) ==
    /\ wpc[w] = "sm_unlock"
    /\ mux' = [mux EXCEPT ![wloc[w].player] = Unlocked]
    /\ wpc' = [wpc EXCEPT ![w] = "idle"]
    /\ wloc' = [wloc EXCEPT ![w] = NoLocals]
    /\ wout' = [wout EXCEPT ![w] = {}]
    /\ UNCHANGED <<registry, objs, playerName, spawned, finalized, viewDistance, onGround,
                   position, usedChunks, permissions, permissionGroup, viewers, loginVars,
                   last>>

\* HasChunkInUse(index) up to the lock
HasChunkInUseCall(w, p, index) ==
    /\ wpc[w] = "idle"
    /\ p \in objs
    /\ wloc' = [wloc EXCEPT ![w] = Locals("HasChunkInUse", p, index, 0, 0, 0, 0, 0)]
    /\ wpc' = [wpc EXCEPT ![w] = "hc_lock"]
    /\ UNCHANGED <<registry, objs, playerVars, viewers, loginVars, wout, last>>

\* player.mux.Lock()
HasChunkInUseLock(w) ==
    /\ wpc[w] = "hc_lock"
    /\ mux[wloc[w].player] = Unlocked
    /\ mux' = [mux EXCEPT ![wloc[w].player] = w]
    /\ wpc' = [wpc EXCEPT ![w] = "hc_read"]
    /\ UNCHANGED <<registry, objs, playerName, spawned, finalized, viewDistance, onGround,
                   position, usedChunks, permissions, permissionGroup, viewers, loginVars,
                   wloc, wout, last>>

\* _, ok := player.usedChunks[index]
HasChunkInUseRead(w) ==
    /\ wpc[w] = "hc_read"
    /\ last' = Call("HasChunkInUse", wloc[w].player, "",
                    HasKey(usedChunks[wloc[w].player], wloc[w].chunk), FALSE, {},
                    <<last.op, last.name>>, {})
    /\ wpc' = [wpc EXCEPT ![w] = "hc_unlock"]
    /\ UNCHANGED <<registry, objs, playerVars, viewers, loginVars, wloc, wout>>

\* player.mux.Unlock(); return ok
HasChunkInUseUnlock(w) ==
    /\ wpc[w] = "hc_unlock"
    /\ mux' = [mux EXCEPT ![wloc[w].player] = Unlocked]
    /\ wpc' = [wpc EXCEPT ![w] = "idle"]
    /\ wloc' = [wloc EXCEPT ![w] = NoLocals]
    /\ UNCHANGED <<registry, objs, playerName, spawned, finalized, viewDistance, onGround,
                   position, usedChunks, permissions, permissionGroup, viewers, loginVars,
                   wout, last>>

\* A thread enters HasAnyChunkInUse()
HasAnyChunkInUseCall(w, p) ==
    /\ wpc[w] = "idle"
    /\ p \in objs
    /\ wloc' = [wloc EXCEPT ![w] = Locals("HasAnyChunkInUse", p, 0, 0, 0, 0, 0, 0)]
    /\ wpc' = [wpc EXCEPT ![w] = "ha_read"]
    /\ UNCHANGED <<registry, objs, playerVars, viewers, loginVars, wout, last>>

\* return len(player.usedChunks) > 0, with no lock taken. A read while
\* another thread is inside a critical section on the map is a data race:
\* it may return either value.
HasAnyChunkInUseRead(w) ==
    /\ wpc[w] = "ha_read"
    /\ \E ret \in BOOLEAN :
         /\ \/ mux[wloc[w].player] # Unlocked
            \/ ret = (usedChunks[wloc[w].player] # EmptyMap)
         /\ last' = Call("HasAnyChunkInUse", wloc[w].player, "", ret, FALSE, {},
                         <<last.op, last.name>>, {})
    /\ wpc' = [wpc EXCEPT ![w] = "idle"]
    /\ wloc' = [wloc EXCEPT ![w] = NoLocals]
    /\ UNCHANGED <<registry, objs, playerVars, viewers, loginVars, wout>>

(* ------------------------------ removal -------------------------------- *)
\* IsFinalized of a session that never reports being finalized.
IsFinalizedNever(p) == FALSE

\* func (player *Player) IsFinalized() bool
IsFinalized(p) == finalized[p]
\* func (player *Player) SetFinalized()
SetFinalized(p) == [finalized EXCEPT ![p] = TRUE]

\* The removal path of a session: a no-op on a finalized session; otherwise
\* it finalizes the session, unsubscribes every tracked chunk under the
\* session's lock, despawns the player from every spawned peer and removes
\* the registry entry, as one step.
RemoveSession(p) ==
    /\ p \in objs
    /\ mux[p] = Unlocked
    /\ IF IsFinalized(p)
         THEN /\ last' = Call("RemoveSession", p, playerName[p], FALSE, FALSE, {},
                              <<last.op, last.name>>, {})
              /\ UNCHANGED <<registry, finalized, usedChunks, viewers>>
         ELSE LET tracked == {usedChunks[p][index] : index \in DOMAIN usedChunks[p]}
                  peers == {q \in GetPlayers \ {p} : spawned[q]}
              IN /\ finalized' = SetFinalized(p)
                 /\ usedChunks' = [usedChunks EXCEPT ![p] = EmptyMap]
                 /\ viewers' = [chunk \in DOMAIN viewers |->
                                  IF chunk \in tracked THEN viewers[chunk] \ {p}
                                  ELSE viewers[chunk]]
                 /\ registry' = RemovePlayer(registry, playerName[p])
                 /\ last' = Call("RemoveSession", p, playerName[p], TRUE, FALSE, {},
                                 <<last.op, last.name>>, peers)
    /\ UNCHANGED <<objs, playerName, spawned, viewDistance, onGround, position, mux,
                   permissions, permissionGroup, loginVars, workerVars>>

(* --------------------------- specifications ---------------------------- *)
\* No thread is inside a call.
Idle ==
    /\ hpc = [t \in Players |-> "idle"]
    /\ hpacket = [t \in Players |-> [kind |-> "Other", username |-> "Steve"]]
    /\ hplayer = [t \in Players |-> NoPlayer]
    /\ hret = [t \in Players |-> "none"]
    /\ sent = [t \in Players |-> <<>>]
    /\ wpc = [w \in Workers |-> "idle"]
    /\ wloc = [w \in Workers |-> NoLocals]
    /\ wout = [w \in Workers |-> {}]
    /\ mux = [p \in Players |-> Unlocked]
    /\ last = NoCall

\* Sessions 1..n have completed the handshake, as NewPlayer and AddPlayer
\* leave them; session p logged in as NameList[p]. The other Player slots
\* hold Go's zero values.
LoggedIn(n) ==
    /\ registry = [name \in Names |->
                     IF \E p \in 1..n : NameList[p] = name
                     THEN CHOOSE p \in 1..n : NameList[p] = name
                     ELSE NoPlayer]
    /\ objs = 1..n
    /\ playerName = [p \in Players |-> IF p <= n THEN NameList[p] ELSE ""]
    /\ finalized = [p \in Players |-> FALSE]
    /\ viewDistance = [p \in Players |-> 0]
    /\ onGround = [p \in Players |-> FALSE]
    /\ position = [p \in Players |-> <<0, 0>>]
    /\ permissions = [p \in Players |-> EmptyMap]
    /\ permissionGroup = [p \in Players |-> IF p <= n THEN DefaultGroup ELSE {}]

\* No session has spawned or been sent a chunk.
NothingLoaded ==
    /\ spawned = [p \in Players |-> FALSE]
    /\ usedChunks = [p \in Players |-> EmptyMap]
    /\ viewers = [chunk \in Chunks |-> {}]

\* The server has started and no connection has logged in.
InitLogin == LoggedIn(0) /\ NothingLoaded /\ Idle

\* One session, as the handshake leaves it.
InitPerm == LoggedIn(1) /\ NothingLoaded /\ Idle

\* One session, spawned in the world, before its first chunk arrives.
InitMove ==
    /\ LoggedIn(1)
    /\ spawned = [p \in Players |-> p = 1]
    /\ usedChunks = [p \in Players |-> EmptyMap]
    /\ viewers = [chunk \in Chunks |-> {}]
    /\ Idle

\* Every session is logged in; each has spawned or not and tracks some of
\* the chunks, to which it is subscribed.
InitLife ==
    /\ LoggedIn(NumPlayers)
    /\ spawned \in [Players -> BOOLEAN]
    /\ usedChunks \in [Players -> {[chunk \in S |-> chunk] : S \in SUBSET Chunks}]
    /\ viewers = [chunk \in Chunks |-> {p \in Players : chunk \in DOMAIN usedChunks[p]}]
    /\ Idle

NextLogin ==
    \/ \E t \in Players, packet \in Packets : HandleStart(t, packet)
    \/ \E t \in Players : HandleLookup(t)
    \/ \E t \in Players : HandleNewPlayer(t)
    \/ \E t \in Players : HandleSendStatus(t)
    \/ \E t \in Players : HandleSendPacks(t)
    \/ \E t \in Players : HandleAddPlayer(t)
    \/ \E p \in Players, value \in BOOLEAN : SetSpawned(p, value)

\* The handshake together with the setter of the session's name
NextName ==
    \/ NextLogin
    \/ \E p \in Players, name \in Names : SetName(p, name)

NextPerm ==
    \/ \E p \in Players, name \in PermNames : HasPermissionCall(p, name)
    \/ \E p \in Players, permission \in Permissions : AddPermission(p, permission)
    \/ \E p \in Players, name \in PermNames : RemovePermission(p, name)
    \/ \E p \in Players, group \in Groups : SetPermissionGroup(p, group)

NextMove ==
    \/ \E p \in Players, distance \in 0..MaxView : SetViewDistance(p, distance)
    \/ \E w \in Workers, p \in Players, chunk \in Chunks : SendChunkCall(w, p, chunk)
    \/ \E w \in Workers : SendChunkLock(w)
    \/ \E w \in Workers : SendChunkInsert(w)
    \/ \E w \in Workers : SendChunkUnlock(w)
    \/ \E w \in Workers, p \in Players, in \in MoveInputs : SyncMoveCall(w, p, in)
    \/ \E w \in Workers : SyncMoveLock(w)
    \/ \E w \in Workers : SyncMoveCull(w)
    \/ \E w \in Workers : SyncMoveUnlock(w)
    \/ \E p \in Players : RemoveSession(p)

\* Scenario A (spec 8) is run by one thread on one session: it sets the
\* view distance, syncs the player at chunk (0,0) or (5,0) and loads the
\* chunks in range.
ScenarioView == 2
ScenarioThread == "world"
ScenarioMoves ==
    {[x2 |-> 1, z2 |-> 1, onGround |-> TRUE], [x2 |-> 161, z2 |-> 16, onGround |-> TRUE]}

InitScenario ==
    /\ LoggedIn(1)
    /\ spawned = [p \in Players |-> FALSE]
    /\ usedChunks = [p \in Players |-> EmptyMap]
    /\ viewers = [chunk \in GridChunks |-> {}]
    /\ Idle

NextScenario ==
    \/ SetViewDistance(1, ScenarioView)
    \/ \E chunk \in GridChunks : LoadChunk(ScenarioThread, 1, chunk)
    \/ SendChunkLock(ScenarioThread)
    \/ SendChunkInsert(ScenarioThread)
    \/ SendChunkUnlock(ScenarioThread)
    \/ \E in \in ScenarioMoves : SyncMoveCall(ScenarioThread, 1, in)
    \/ SyncMoveLock(ScenarioThread)
    \/ SyncMoveCull(ScenarioThread)
    \/ SyncMoveUnlock(ScenarioThread)

\* A world that holds the chunk at the origin and the far chunk, and a
\* client that may ask for a view distance of 46341.
FarWorld == {1} \cup FarChunks
FarViews == {0, 2, 46341}

InitFar ==
    /\ LoggedIn(1)
    /\ spawned = [p \in Players |-> FALSE]
    /\ usedChunks = [p \in Players |-> EmptyMap]
    /\ viewers = [chunk \in FarWorld |-> {}]
    /\ Idle

NextFar ==
    \/ \E p \in Players, distance \in FarViews : SetViewDistance(p, distance)
    \/ \E w \in Workers, p \in Players, chunk \in FarWorld : SendChunkCall(w, p, chunk)
    \/ \E w \in Workers : SendChunkLock(w)
    \/ \E w \in Workers : SendChunkInsert(w)
    \/ \E w \in Workers : SendChunkUnlock(w)
    \/ \E w \in Workers, p \in Players, in \in MoveInputs : SyncMoveCall(w, p, in)
    \/ \E w \in Workers : SyncMoveLock(w)
    \/ \E w \in Workers : SyncMoveCull(w)
    \/ \E w \in Workers : SyncMoveUnlock(w)

\* Two sessions are logged in, each tracking some of the chunks, to which it
\* is subscribed; one thread syncs their movement.
InitPair ==
    /\ LoggedIn(2)
    /\ spawned = [p \in Players |-> FALSE]
    /\ usedChunks \in [Players -> {[chunk \in S |-> chunk] : S \in SUBSET Chunks}]
    /\ \A p \in Players \ objs : usedChunks[p] = EmptyMap
    /\ viewers = [chunk \in Chunks |-> {p \in Players : chunk \in DOMAIN usedChunks[p]}]
    /\ Idle

NextPair ==
    \/ \E p \in Players, distance \in 0..MaxView : SetViewDistance(p, distance)
    \/ \E p \in Players, in \in MoveInputs : SyncMoveCall(ScenarioThread, p, in)
    \/ SyncMoveLock(ScenarioThread)
    \/ SyncMoveCull(ScenarioThread)
    \/ SyncMoveUnlock(ScenarioThread)

\* One session, whose tracked chunks two threads load, cull and query.
NextRead ==
    \/ \E w \in Workers, p \in Players, chunk \in Chunks : SendChunkCall(w, p, chunk)
    \/ \E w \in Workers : SendChunkLock(w)
    \/ \E w \in Workers : SendChunkInsert(w)
    \/ \E w \in Workers : SendChunkUnlock(w)
    \/ \E w \in Workers, p \in Players, in \in ScenarioMoves : SyncMoveCall(w, p, in)
    \/ \E w \in Workers : SyncMoveLock(w)
    \/ \E w \in Workers : SyncMoveCull(w)
    \/ \E w \in Workers : SyncMoveUnlock(w)
    \/ \E w \in Workers, p \in Players, index \in Chunks : HasChunkInUseCall(w, p, index)
    \/ \E w \in Workers : HasChunkInUseLock(w)
    \/ \E w \in Workers : HasChunkInUseRead(w)
    \/ \E w \in Workers : HasChunkInUseUnlock(w)
    \/ \E w \in Workers, p \in Players : HasAnyChunkInUseCall(w, p)
    \/ \E w \in Workers : HasAnyChunkInUseRead(w)

\* One session, whose view distance was set before: the chunk-loading path
\* sends it the chunks in range while its movement is synced.
InitLoad ==
    /\ registry = [name \in Names |-> IF name = NameList[1] THEN 1 ELSE NoPlayer]
    /\ objs = {1}
    /\ playerName = [p \in Players |-> IF p = 1 THEN NameList[1] ELSE ""]
    /\ finalized = [p \in Players |-> FALSE]
    /\ viewDistance \in [Players -> 0..MaxView]
    /\ \A p \in Players \ {1} : viewDistance[p] = 0
    /\ onGround = [p \in Players |-> FALSE]
    /\ position = [p \in Players |-> <<0, 0>>]
    /\ permissions = [p \in Players |-> EmptyMap]
    /\ permissionGroup = [p \in Players |-> IF p = 1 THEN DefaultGroup ELSE {}]
    /\ NothingLoaded
    /\ Idle

NextLoad ==
    \/ \E w \in Workers, p \in Players, chunk \in Chunks : LoadChunk(w, p, chunk)
    \/ \E w \in Workers : SendChunkLock(w)
    \/ \E w \in Workers : SendChunkInsert(w)
    \/ \E w \in Workers : SendChunkUnlock(w)
    \/ \E w \in Workers, p \in Players, in \in MoveInputs : SyncMoveCall(w, p, in)
    \/ \E w \in Workers : SyncMoveLock(w)
    \/ \E w \in Workers : SyncMoveCull(w)
    \/ \E w \in Workers : SyncMoveUnlock(w)

NextLife ==
    \/ \E p \in Players, value \in BOOLEAN : SetSpawned(p, value)
    \/ \E p \in Players : RemoveSession(p)

SpecLogin == InitLogin /\ [][NextLogin]_vars
SpecPerm == InitPerm /\ [][NextPerm]_vars
SpecMove == InitMove /\ [][NextMove]_vars
SpecLife == InitLife /\ [][NextLife]_vars
SpecScenario == InitScenario /\ [][NextScenario]_vars
SpecName == InitLogin /\ [][NextName]_vars
SpecFar == InitFar /\ [][NextFar]_vars
SpecPair == InitPair /\ [][NextPair]_vars
SpecRead == InitMove /\ [][NextRead]_vars
SpecLoad == InitLoad /\ [][NextLoad]_vars


(* ============================== claims ================================= *)
\* The sessions the registry holds under a name or for a player of that name.
SessionsNamed(reg, names, name) ==
    {reg[n] : n \in {m \in Names : reg[m] # NoPlayer /\ names[reg[m]] = name}}

(* ---- C1 ---- *)
\* C1: of the Handle invocations that carry login packets with one username,
\* none registered beforehand, exactly one returns true and the others
\* false, under every interleaving, and the registry then holds exactly one
\* session for the name. (No session is removed in SpecLogin, so every
\* invocation for a name belongs to the one batch.)
C1_ExactlyOneLoginSucceeds ==
    \A name \in LoginNames :
        LET batch == {t \in Players : hpacket[t].kind = "Login"
                                      /\ hpacket[t].username = name
                                      /\ hpc[t] # "idle"}
        IN (batch # {} /\ \A t \in batch : hpc[t] = "done")
           => /\ Cardinality({t \in batch : hret[t] = "true"}) = 1
              /\ \A t \in batch : hret[t] \in {"true", "false"}
              /\ Cardinality(SessionsNamed(registry, playerName, name)) = 1

(* ---- C2 ---- *)
\* C2: a Handle invocation whose login packet names a user that already has
\* a session in the registry returns false, constructs no session, sends no
\* packet and leaves the registry as it was.
C2_DuplicateRejected ==
    [][\A t \in Players :
         (hpc[t] = "lookup" /\ hpc'[t] # "lookup"
          /\ registry[hpacket[t].username] # NoPlayer)
         => /\ hpc'[t] = "done"
            /\ hret'[t] = "false"
            /\ hplayer'[t] = NoPlayer
            /\ objs' = objs
            /\ sent' = sent
            /\ sent[t] = <<>>
            /\ registry' = registry]_vars

\* A login for a registered name was rejected, nothing sent, while the
\* first session is still the one registered.
C2_Witness ==
    \E t \in Players :
        /\ hpc[t] = "done"
        /\ hpacket[t].kind = "Login"
        /\ hret[t] = "false"
        /\ sent[t] = <<>>
        /\ t \notin objs
        /\ registry[hpacket[t].username] \in Players \ {t}

(* ---- C10 ---- *)
\* C10: when Handle returns true for a login packet, the registry holds
\* exactly one session for the username: the one Handle built, not spawned,
\* not finalized and tracking no chunk; and no step of Handle changes a
\* spawned or finalized flag, so they stay false until a later step sets them.
C10_FreshSessionRegistered ==
    [][/\ \A t \in Players :
            (hpc[t] = "add" /\ hpc'[t] = "done")
            => LET name == hpacket[t].username IN
               /\ hret'[t] = "true"
               /\ SessionsNamed(registry', playerName', name) = {hplayer[t]}
               /\ hplayer[t] \in objs'
               /\ ~spawned'[hplayer[t]]
               /\ ~finalized'[hplayer[t]]
               /\ usedChunks'[hplayer[t]] = EmptyMap
       /\ (hpc' # hpc) => (spawned' = spawned /\ finalized' = finalized)]_vars

\* Handle has returned true for a login and its session is the registered
\* one, neither spawned nor finalized.
C10_Witness ==
    \E t \in Players :
        /\ hpc[t] = "done"
        /\ hpacket[t].kind = "Login"
        /\ hret[t] = "true"
        /\ registry[hpacket[t].username] = hplayer[t]
        /\ hplayer[t] \in objs
        /\ ~spawned[hplayer[t]]
        /\ ~finalized[hplayer[t]]


(* ---- C6 ---- *)
\* C6: HasPermission(name) returns true exactly when the session's group
\* grants name, or an override for name exists and its value is true.
C6_HasPermissionIsGrantOrTrueOverride ==
    last.op = "HasPermission"
    => (last.ret <=>
          \/ GroupHasPermission(permissionGroup[last.player], last.name)
          \/ /\ HasKey(permissions[last.player], last.name)
             /\ permissions[last.player][last.name].value)

(* ---- C7 ---- *)
\* C7: AddPermission(p) returns true exactly when an override with p's name
\* existed before the call, whatever the group grants; after the call the
\* override for p's name is p.
C7_AddPermissionReportsOverwrite ==
    [][\A p \in Players, permission \in Permissions :
         AddPermission(p, permission)
         => /\ last'.ret <=> HasKey(permissions[p], permission.name)
            /\ HasKey(permissions'[p], permission.name)
            /\ permissions'[p][permission.name] = permission]_vars

(* ---- C8 ---- *)
\* C8: RemovePermission(name) on a session with no override for name
\* returns false and changes neither the overrides nor the group, whether
\* or not the group grants name.
C8_RemoveWithoutOverrideIsNoOp ==
    [][\A p \in Players, name \in PermNames :
         (RemovePermission(p, name) /\ ~HasKey(permissions[p], name))
         => /\ last'.ret = FALSE
            /\ permissions' = permissions
            /\ permissionGroup' = permissionGroup]_vars

(* ---- C9 ---- *)
\* C9: after AddPermission of an override for a name, HasPermission of the
\* name is true even if the group denies it; after RemovePermission of a
\* name, HasPermission of the name is the group's grant; RemovePermission
\* leaves the group as it was.
C9_AddThenRemoveRestoresGroup ==
    /\ last.op = "AddPermission" => HasPermission(last.player, last.name)
    /\ last.op = "RemovePermission"
       => /\ HasPermission(last.player, last.name)
             <=> GroupHasPermission(permissionGroup[last.player], last.name)
          /\ permissionGroup[last.player] = last.group

\* An override for a name the group denies was added and then removed, and
\* the session no longer has the permission.
C9_Witness ==
    /\ last.op = "RemovePermission"
    /\ last.pre = <<"AddPermission", last.name>>
    /\ last.had
    /\ last.ret
    /\ ~GroupHasPermission(permissionGroup[last.player], last.name)
    /\ ~HasPermission(last.player, last.name)


(* ---- C3 ---- *)
\* The chunk coordinate of a position given in half blocks: chunk c spans
\* the blocks 16c .. 16c + 15.
ChunkOf(x2) == CHOOSE c \in -8..8 : 32 * c <= x2 /\ x2 < 32 * (c + 1)
\* The squared planar distance between two chunk coordinates.
PlanarDistSq(x, z, chunk) ==
    (x - GetX(chunk)) * (x - GetX(chunk)) + (z - GetZ(chunk)) * (z - GetZ(chunk))
\* The chunks a session tracks.
Tracked(used) == {used[index] : index \in DOMAIN used}
\* Thread w returns from SyncMove in this step.
SyncMoveReturns(w) == wpc[w] = "sm_unlock" /\ wpc'[w] = "idle"

\* C3 as stated: when a SyncMove returns, usedChunks contains a chunk if and
\* only if its squared planar distance to the chunk coordinate of that
\* sync's position is at most the view distance squared.
C3_TrackedIffInRange ==
    [][\A w \in Workers :
         SyncMoveReturns(w)
         => \A chunk \in Chunks :
              chunk \in Tracked(usedChunks'[wloc[w].player])
              <=> PlanarDistSq(ChunkOf(wloc[w].x2), ChunkOf(wloc[w].z2), chunk)
                    <= wloc[w].rs]_vars

\* C3 as amended: when a SyncMove returns, every chunk in usedChunks lies
\* within the view distance that sync read, measured from the chunk
\* coordinate of that sync's position; SyncMove only removes entries.
C3_TrackedOnlyInRange ==
    [][\A w \in Workers :
         SyncMoveReturns(w)
         => \A chunk \in Tracked(usedChunks'[wloc[w].player]) :
              PlanarDistSq(ChunkOf(wloc[w].x2), ChunkOf(wloc[w].z2), chunk)
                <= wloc[w].rs]_vars

\* A SyncMove is about to return having culled a chunk with entities and
\* kept another, while a chunk in range was never loaded and is not tracked.
C3_Witness ==
    \E w \in Workers :
        /\ wpc[w] = "sm_unlock"
        /\ wout[w] # {}
        /\ Tracked(usedChunks[wloc[w].player]) # {}
        /\ \E chunk \in Chunks \ Tracked(usedChunks[wloc[w].player]) :
              PlanarDistSq(ChunkOf(wloc[w].x2), ChunkOf(wloc[w].z2), chunk) <= wloc[w].rs

(* ---- C4 ---- *)
\* C4: a session whose finalized flag is true has an empty tracked-chunk
\* set and is absent from the registry.
C4_FinalizedTracksNothing ==
    \A p \in objs :
        finalized[p] => (usedChunks[p] = EmptyMap /\ p \notin GetPlayers)

CapabilityPackets ==
    <<[id |-> "PlayStatus", status |-> StatusLoginSuccess], [id |-> "ResourcePackInfo"]>>

\* The order in which one invocation of Handle passes its positions: the
\* name check, the construction of the session, the two sends, the
\* registration; a rejection leaves from the name check, a packet that is no
\* login from the start.
HandleOrder ==
    {<<"idle", "lookup">>, <<"idle", "done">>, <<"lookup", "new">>, <<"lookup", "done">>,
     <<"new", "status">>, <<"status", "packs">>, <<"packs", "add">>, <<"add", "done">>}

\* C11: every invocation of Handle that constructs a session sends to its
\* connection exactly the play-status packet with status success and then the
\* resource-pack-info packet, both after the session is constructed and
\* before it is registered, and registers the session on returning true; its
\* positions follow name check, construction, sends, registration; and an
\* invocation that returns without a session (a rejection) has sent nothing.
C11_HandshakeSendsThenRegisters ==
    [][\A t \in Players :
         /\ (hpc'[t] # hpc[t]) => <<hpc[t], hpc'[t]>> \in HandleOrder
         /\ (hpc'[t] \in {"idle", "lookup", "new"}) => (sent'[t] = <<>> /\ hplayer'[t] = NoPlayer)
         /\ (hpc'[t] = "status") => (sent'[t] = <<>> /\ hplayer'[t] \in objs')
         /\ (hpc'[t] = "packs")
            => (sent'[t] = SubSeq(CapabilityPackets, 1, 1) /\ hplayer'[t] \in objs')
         /\ (hpc'[t] = "add")
            => (sent'[t] = CapabilityPackets /\ hplayer'[t] \in objs')
         /\ (hpc[t] = "add" /\ hpc'[t] = "done")
            => /\ sent'[t] = CapabilityPackets
               /\ hret'[t] = "true"
               /\ registry'[hpacket[t].username] = hplayer[t]
               /\ hplayer[t] \in objs
         /\ (hpc'[t] = "done" /\ hplayer'[t] = NoPlayer) => sent'[t] = <<>>
         /\ (hpc'[t] = "done" /\ hret'[t] = "false")
            => (sent'[t] = <<>> /\ hplayer'[t] = NoPlayer)]_vars

\* One handshake has constructed a session, sent both packets and registered
\* it, and another has been rejected.
C11_Witness ==
    \E t, u \in Players :
        /\ hpc[t] = "done"
        /\ hret[t] = "true"
        /\ hplayer[t] \in objs
        /\ sent[t] = CapabilityPackets
        /\ registry[hpacket[t].username] = hplayer[t]
        /\ hpc[u] = "done"
        /\ hret[u] = "false"
        /\ sent[u] = <<>>

(* ---- C12 ---- *)
\* The chunks at the chunk coordinate of the position a SyncMove was given.
StoodIn(w) ==
    {chunk \in Chunks : GetX(chunk) = ChunkOf(wloc[w].x2) /\ GetZ(chunk) = ChunkOf(wloc[w].z2)}

InRangeOf(x, z, rs) == {chunk \in GridChunks : PlanarDistSq(x, z, chunk) <= rs}
\* The session of Scenario A is synced in the chunk at x, with view distance
\* 2, no call is running and every chunk in range is loaded.
FullyLoadedAt(x) ==
    /\ wpc[ScenarioThread] = "idle"
    /\ viewDistance[1] = ScenarioView
    /\ ChunkOf(position[1][1]) = x
    /\ ChunkOf(position[1][2]) = 0
    /\ InRangeOf(x, 0, ScenarioView * ScenarioView) \subseteq Tracked(usedChunks[1])
\* The cull of a SyncMove to chunk (5,0) runs in this step.
CullsAtFive ==
    /\ wpc[ScenarioThread] = "sm_cull"
    /\ wpc'[ScenarioThread] = "sm_unlock"
    /\ ChunkOf(wloc[ScenarioThread].x2) = 5
    /\ ChunkOf(wloc[ScenarioThread].z2) = 0
\* Scenario A with n chunks in range of (0,0): synced at (0,0) with all
\* chunks in range loaded, the session tracks n chunks within squared
\* distance 4; the cull of a SyncMove to (5,0) removes every chunk within
\* squared distance 4 of (0,0); and with all chunks in range of (5,0)
\* loaded, the session tracks as many chunks as lie within squared distance
\* 4 of (5,0).
ScenarioA(n) ==
    /\ FullyLoadedAt(0)
       => Cardinality(Tracked(usedChunks[1]) \cap InRangeOf(0, 0, ScenarioView * ScenarioView)) = n
    /\ CullsAtFive
       => Tracked(usedChunks'[1]) \cap InRangeOf(0, 0, ScenarioView * ScenarioView) = {}
    /\ FullyLoadedAt(5)
       => Cardinality(Tracked(usedChunks[1]))
            = Cardinality(InRangeOf(5, 0, ScenarioView * ScenarioView))

\* C13 as stated: Scenario A with 7 chunks within squared distance 4 of the
\* player's chunk.
C13_ScenarioASeven == [][ScenarioA(7)]_vars

\* C13 as amended: Scenario A with 13 chunks within squared distance 4 of
\* the player's chunk: the centre, 4 at distance 1, 4 at distance 2 and 4 at
\* distance 4.
C13_ScenarioAThirteen == [][ScenarioA(13)]_vars

\* A SyncMove to chunk (5,0) is about to return: it has despawned the
\* sheep of 13 chunks and the session tracks nothing.
C13_Witness ==
    /\ wpc[ScenarioThread] = "sm_unlock"
    /\ ChunkOf(wloc[ScenarioThread].x2) = 5
    /\ Cardinality(wout[ScenarioThread]) = 13
    /\ usedChunks[1] = EmptyMap

(* ---- C14 ---- *)
\* C14: a thread that holds a session's mux sends no packet: no step taken
\* by a thread while it holds the lock adds to what its call has sent.
C14_NoSendUnderLock ==
    [][\A w \in Workers, p \in Players :
         (mux[p] = w) => (wout'[w] \subseteq wout[w])]_vars

(* ---- C15 ---- *)
\* C15: every registry entry stored under key k refers to a session whose
\* GetName() is k, and no step changes the name of a registered session.
C15_NameImmutableOnceRegistered ==
    [][/\ \A k \in Names :
            registry'[k] # NoPlayer => playerName'[registry'[k]] = k
       /\ \A p \in GetPlayers : playerName'[p] = playerName[p]]_vars

(* ---- C16 ---- *)
\* Arithmetic over the integers, for numbers whose squares exceed what the
\* model checker's machine integers hold: n * n, for |n| < 2^30, as four
\* digits to the base 2^15, least significant first; the sum of two such
\* numbers; and their comparison.
Radix == 2 ^ 15
ExactSquare(n) ==
    LET m == IF n < 0 THEN -n ELSE n
        h == m \div Radix
        l == m % Radix
        t0 == l * l
        t1 == 2 * h * l + (t0 \div Radix)
        t2 == h * h + (t1 \div Radix)
    IN <<t0 % Radix, t1 % Radix, t2 % Radix, t2 \div Radix>>
ExactSum(a, b) ==
    LET k1 == a[1] + b[1]
        k2 == a[2] + b[2] + (k1 \div Radix)
        k3 == a[3] + b[3] + (k2 \div Radix)
        k4 == a[4] + b[4] + (k3 \div Radix)
    IN <<k1 % Radix, k2 % Radix, k3 % Radix, k4>>
ExactGreater(a, b) ==
    \E i \in 1..4 : a[i] > b[i] /\ \A j \in (i + 1)..4 : a[j] = b[j]
\* The squared planar distance between chunk coordinate (x, z) and the chunk
\* exceeds the square of the view distance, over the integers.
BeyondView(x, z, distance, chunk) ==
    ExactGreater(ExactSum(ExactSquare(x - GetX(chunk)), ExactSquare(z - GetZ(chunk))),
                 ExactSquare(distance))
\* The view distance the SyncMove of thread w read.
ViewRead(w) ==
    CHOOSE distance \in (0..(MaxView + 1)) \cup FarViews :
        RadiusSquared(distance) = wloc[w].rs

\* Thread w runs the cull loop of SyncMove in this step.
SyncMoveCulls(w) == wpc[w] = "sm_cull" /\ wpc'[w] = "sm_unlock"
\* Thread w takes a step of SyncMove.
SyncMoveSteps(w) ==
    /\ wpc'[w] # wpc[w]
    /\ \/ wpc[w] \in {"sm_lock", "sm_cull", "sm_unlock"}
       \/ wpc'[w] = "sm_lock"

\* C16: the cull of a SyncMove removes from usedChunks exactly the entries
\* whose squared planar distance to the chunk coordinate of the position
\* given exceeds the square of the view distance the SyncMove read; every
\* other entry is retained with the chunk it referred to; and no step of
\* SyncMove adds an entry.
C16_CullRemovesExactlyOutOfRange ==
    [][\A w \in Workers :
         /\ SyncMoveCulls(w)
            => LET p == wloc[w].player IN
               /\ \A index \in DOMAIN usedChunks[p] :
                    index \notin DOMAIN usedChunks'[p]
                    <=> BeyondView(ChunkOf(wloc[w].x2), ChunkOf(wloc[w].z2), ViewRead(w),
                                   usedChunks[p][index])
               /\ \A index \in DOMAIN usedChunks'[p] \cap DOMAIN usedChunks[p] :
                    usedChunks'[p][index] = usedChunks[p][index]
         /\ SyncMoveSteps(w)
            => \A p \in Players : DOMAIN usedChunks'[p] \subseteq DOMAIN usedChunks[p]]_vars

(* ---- C20 ---- *)
\* C20: the comparison of the cull, computed in int32, decides as the same
\* comparison over the integers does, whatever the view distance and the
\* chunk coordinates: an entry is removed exactly when its squared planar
\* distance to the chunk coordinate SyncMove derived exceeds the square of
\* the view distance it read; and neither xDist*xDist+zDist*zDist nor rs,
\* as computed, is negative.
C20_Int32ComparisonIsExact ==
    [][\A w \in Workers :
         SyncMoveCulls(w)
         => LET p == wloc[w].player IN
            /\ wloc[w].rs >= 0
            /\ \A index \in DOMAIN usedChunks[p] :
                 /\ DistSq(wloc[w].chunkX, wloc[w].chunkZ, usedChunks[p][index]) >= 0
                 /\ index \notin DOMAIN usedChunks'[p]
                    <=> BeyondView(wloc[w].chunkX, wloc[w].chunkZ, ViewRead(w),
                                   usedChunks[p][index])]_vars

(* ---- C17 ---- *)
\* The session on which thread w runs or starts SyncMove in this step.
SyncMoveOf(w) == IF wpc[w] = "idle" THEN wloc'[w].player ELSE wloc[w].player
\* The despawn notifications to session p for the entities of the chunks.
DespawnsOf(chunks, p) ==
    {[id |-> "Despawn", what |-> entity, to |-> p] :
        entity \in UNION {GetEntities(chunk) : chunk \in chunks}}

\* C17: a step of a SyncMove on session p removes p as a viewer of each
\* chunk it removes from p's tracked set and sends p one despawn for each
\* entity in those chunks, in the cull; it changes no other viewer
\* subscription, sends nothing else, and leaves every other session's
\* tracked set as it was.
C17_SyncMoveSideEffects ==
    [][\A w \in Workers :
         SyncMoveSteps(w)
         => LET p == SyncMoveOf(w)
                removed == Tracked(usedChunks[p]) \ Tracked(usedChunks'[p])
            IN /\ \A chunk \in DOMAIN viewers :
                    viewers'[chunk] = IF chunk \in removed THEN viewers[chunk] \ {p}
                                      ELSE viewers[chunk]
               /\ DOMAIN viewers' = DOMAIN viewers
               /\ SyncMoveCulls(w) => wout'[w] = DespawnsOf(removed, p)
               /\ ~SyncMoveCulls(w) => wout'[w] = {}
               /\ \A v \in Workers \ {w} : wout'[v] = wout[v]
               /\ \A q \in Players \ {p} : usedChunks'[q] = usedChunks[q]]_vars

\* A SyncMove is about to return: it has culled a chunk with entities that
\* another session still tracks and views, and it has kept a chunk with
\* entities, of which it sent no despawn.
C17_Witness ==
    \E w \in Workers, q \in Players, gone, kept \in Chunks :
        /\ wpc[w] = "sm_unlock"
        /\ q # wloc[w].player
        /\ DespawnsOf({gone}, wloc[w].player) # {}
        /\ DespawnsOf({gone}, wloc[w].player) \subseteq wout[w]
        /\ wloc[w].player \notin viewers[gone]
        /\ q \in viewers[gone]
        /\ gone \in Tracked(usedChunks[q])
        /\ kept \in Tracked(usedChunks[wloc[w].player])
        /\ DespawnsOf({kept}, wloc[w].player) # {}
        /\ DespawnsOf({kept}, wloc[w].player) \cap wout[w] = {}

(* ---- C18 ---- *)
\* The positions at which a thread reads or writes usedChunks, and those at
\* which it is inside a critical section of the session's mux.
AccessPcs == {"sc_insert", "sm_cull", "hc_read", "ha_read"}
CriticalPcs == {"sc_insert", "sc_unlock", "sm_cull", "sm_unlock", "hc_read", "hc_unlock"}

\* C18: a thread that reads or writes a session's usedChunks holds that
\* session's mux while it does; usedChunks changes only in a step of the
\* thread holding the mux; and a thread that holds the mux is inside a
\* critical section that ends by releasing it.
C18_UsedChunksUnderMutex ==
    [][/\ \A w \in Workers :
            (wpc[w] \in AccessPcs /\ wpc'[w] # wpc[w]) => mux[wloc[w].player] = w
       /\ \A p \in Players :
            usedChunks'[p] # usedChunks[p]
            => (mux[p] \in Workers /\ wpc'[mux[p]] # wpc[mux[p]])
       /\ \A p \in Players :
            mux'[p] # Unlocked
            => (wpc'[mux'[p]] \in CriticalPcs /\ wloc'[mux'[p]].player = p)]_vars

(* ---- C19 ---- *)
\* C19: nothing acts on a session's tracked chunks between the position
\* update of a SyncMove and its cull; and whenever no call is running, no
\* session tracks a chunk whose squared distance to the chunk coordinate of
\* its position exceeds its view distance squared.
C19_SyncMoveAtomic ==
    [][/\ \A w \in Workers :
            wpc[w] = "sm_lock"
            => usedChunks'[wloc[w].player] = usedChunks[wloc[w].player]
       /\ (\A w \in Workers : wpc'[w] = "idle")
          => \A p \in objs : \A chunk \in Tracked(usedChunks'[p]) :
                PlanarDistSq(ChunkOf(position'[p][1]), ChunkOf(position'[p][2]), chunk)
                  <= viewDistance'[p] * viewDistance'[p]]_vars

====
